---- MODULE Spec2Model ----
(***************************************************************************)
(* Opulent Voice receiver (opulent_voice_receiver.py): the frame parser,   *)
(* the frame dispatch of OpulentVoiceReceiver, the listen thread(s), and   *)
(* the AudioPlayer's bounded playback queue shared with the audio device   *)
(* callback.                                                               *)
(*                                                                         *)
(* Bytes are the naturals 0..255 and a bytes object is a sequence of them. *)
(* A decoded PCM chunk is the one-element sequence <<n>>, n >= 1 being the *)
(* ordinal of the decode that produced it, so that chunks can be told      *)
(* apart and their order observed.                                         *)
(***************************************************************************)
EXTENDS Integers, Sequences, FiniteSets, TLC

VARIABLES
    running,         \* OpulentVoiceReceiver.running
    socket,          \* OpulentVoiceReceiver.socket: "open" or "closed"
    stats,           \* OpulentVoiceReceiver.stats
    ptt_active,      \* OpulentVoiceReceiver.ptt_active
    last_audio_time, \* OpulentVoiceReceiver.last_audio_time
    threads,         \* the listen threads start() has spawned, each with its
                     \* position in listen_loop and its locals
    audio_queue,     \* AudioPlayer.audio_queue, oldest chunk first
    audio_stats,     \* AudioPlayer.stats
    player_running,  \* AudioPlayer.running
    output_stream,   \* AudioPlayer.output_stream: "active" or "closed"
    callback         \* the audio device callback: position, frame_count, and
                     \* the data it last returned to the device

vars == <<running, socket, stats, ptt_active, last_audio_time, threads,
          audio_queue, audio_stats, player_running, output_stream, callback>>

-----------------------------------------------------------------------------
(* Bounds of the model.                                                    *)

\* longest payload of the datagrams given to the parser
MaxPayloadLen == 2
\* largest payload length a header of the parser's inputs declares
MaxDeclaredLen == 3
\* datagrams the receiver takes in the dispatch specification
MaxPackets == 2
\* datagrams the receiver takes in the playback specification
MaxAudioPackets == 60
\* decode failures in the playback specification
MaxDecodeErrors == 1
\* largest frame_count the device asks the callback for
MaxFrameCount == 2
\* calls of start() in the lifecycle specification
MaxStarts == 2
\* datagrams the receiver takes in the lifecycle specification
MaxLifePackets == 2

-----------------------------------------------------------------------------
(* OpulentVoiceProtocol                                                    *)

MAGIC_BYTES == <<255, 93>>
FRAME_TYPE_AUDIO == 1
FRAME_TYPE_TEXT == 2
FRAME_TYPE_CONTROL == 3
FRAME_TYPE_DATA == 4
HEADER_SIZE == 14

None == [none |-> TRUE]

Min(a, b) == IF a < b THEN a ELSE b

\* Python's b[lo:hi] for 0 <= lo <= hi: the bytes at 0-based positions
\* lo .. hi-1 that exist.
Slice(b, lo, hi) == SubSeq(b, lo + 1, Min(hi, Len(b)))

\* struct.unpack's big-endian unsigned 16-bit field 'H'
unpack_H(hi, lo) == hi * 256 + lo

parse_frame_swapped(frame_data) ==
    IF Len(frame_data) < HEADER_SIZE THEN None
    ELSE LET hdr == Slice(frame_data, 0, HEADER_SIZE)
             magic == SubSeq(hdr, 1, 2)
             station_id == SubSeq(hdr, 3, 8)
             frame_type == hdr[9]
             sequence == unpack_H(hdr[11], hdr[10])
             payload_len == unpack_H(hdr[13], hdr[12])
         IN IF magic # MAGIC_BYTES THEN None
            ELSE [station_id |-> station_id,
                  type |-> frame_type,
                  sequence |-> sequence,
                  payload |-> Slice(frame_data, HEADER_SIZE, HEADER_SIZE + payload_len)]

parse_frame_anylen(frame_data) ==
    LET hdr == Slice(frame_data, 0, HEADER_SIZE)
    IN IF Len(hdr) >= 2 /\ SubSeq(hdr, 1, 2) = MAGIC_BYTES
       THEN [station_id |-> Slice(hdr, 2, 8),
             type |-> IF Len(hdr) >= 9 THEN hdr[9] ELSE 0,
             sequence |-> 0,
             payload |-> <<>>]
       ELSE None

parse_frame_nomagic(frame_data) ==
    IF Len(frame_data) < HEADER_SIZE THEN None
    ELSE LET hdr == Slice(frame_data, 0, HEADER_SIZE)
         IN [station_id |-> SubSeq(hdr, 3, 8),
             type |-> hdr[9],
             sequence |-> unpack_H(hdr[10], hdr[11]),
             payload |-> Slice(frame_data, HEADER_SIZE,
                               HEADER_SIZE + unpack_H(hdr[12], hdr[13]))]

\* The frame's 'timestamp' (time.time()) is read by nothing and is left out.
parse_frame(frame_data) ==
    IF Len(frame_data) < HEADER_SIZE THEN None
    ELSE LET hdr == Slice(frame_data, 0, HEADER_SIZE)
             magic == SubSeq(hdr, 1, 2)
             station_id == SubSeq(hdr, 3, 8)
             frame_type == hdr[9]
             sequence == unpack_H(hdr[10], hdr[11])
             payload_len == unpack_H(hdr[12], hdr[13])
         IN IF magic # MAGIC_BYTES THEN None
            ELSE [station_id |-> station_id,
                  type |-> frame_type,
                  sequence |-> sequence,
                  payload |-> Slice(frame_data, HEADER_SIZE, HEADER_SIZE + payload_len)]

-----------------------------------------------------------------------------
(* The sender's side of the wire layout                                    *)
(*   magic(2) | stationId(6) | type(1) | sequence(2) | payloadLen(2) |     *)
(*   reserved(1) | payload                                                 *)
(* i.e. struct.pack('>2s 6s B H H B', ...) followed by the payload.        *)

pack_H(n) == <<(n \div 256) % 256, n % 256>>

Header(magic, station_id, frame_type, sequence, payload_len, reserved) ==
    magic \o station_id \o <<frame_type>> \o pack_H(sequence)
          \o pack_H(payload_len) \o <<reserved>>

Encode(station_id, frame_type, sequence, payload) ==
    Header(MAGIC_BYTES, station_id, frame_type, sequence, Len(payload), 0) \o payload

-----------------------------------------------------------------------------
(* bytes.decode('utf-8', errors='ignore'): the code points of the          *)
(* well-formed sequences of b; every byte of an ill-formed sequence (a     *)
(* stray continuation byte, an invalid lead, a lead without its            *)
(* continuation bytes) is dropped.                                         *)

\* continuation bytes a lead byte asks for; -1 for a byte that cannot lead
utf8_need(c) ==
    IF c < 128 THEN 0
    ELSE IF c >= 194 /\ c <= 223 THEN 1
    ELSE IF c >= 224 /\ c <= 239 THEN 2
    ELSE IF c >= 240 /\ c <= 244 THEN 3
    ELSE -1

\* is x a valid i-th continuation byte (i = 1, 2, 3) after lead byte c
utf8_cont_ok(c, i, x) ==
    IF i = 1 /\ c = 224 THEN x >= 160 /\ x <= 191
    ELSE IF i = 1 /\ c = 237 THEN x >= 128 /\ x <= 159
    ELSE IF i = 1 /\ c = 240 THEN x >= 144 /\ x <= 191
    ELSE IF i = 1 /\ c = 244 THEN x >= 128 /\ x <= 143
    ELSE x >= 128 /\ x <= 191

RECURSIVE utf8_valid_conts(_, _, _)
\* how many of the first `need` bytes after the lead b[1] are valid
\* continuation bytes, counting from the i-th
utf8_valid_conts(b, i, need) ==
    IF i > need \/ i + 1 > Len(b) \/ ~utf8_cont_ok(b[1], i, b[i + 1]) THEN i - 1
    ELSE utf8_valid_conts(b, i + 1, need)

utf8_codepoint(b, need) ==
    IF need = 0 THEN b[1]
    ELSE IF need = 1 THEN (b[1] % 32) * 64 + (b[2] % 64)
    ELSE IF need = 2 THEN (b[1] % 16) * 4096 + (b[2] % 64) * 64 + (b[3] % 64)
    ELSE (b[1] % 8) * 262144 + (b[2] % 64) * 4096 + (b[3] % 64) * 64 + (b[4] % 64)

RECURSIVE decode_utf8_replace(_)
decode_utf8_replace(b) ==
    IF b = <<>> THEN <<>>
    ELSE IF b[1] < 128 THEN <<b[1]>> \o decode_utf8_replace(Tail(b))
    ELSE <<65533>> \o decode_utf8_replace(Tail(b))

RECURSIVE decode_utf8_ignore(_)
decode_utf8_ignore(b) ==
    IF b = <<>> THEN <<>>
    ELSE LET need == utf8_need(b[1])
         IN IF need < 0 THEN decode_utf8_ignore(Tail(b))
            ELSE LET k == utf8_valid_conts(b, 1, need)
                 IN IF k = need
                    THEN <<utf8_codepoint(b, need)>>
                         \o decode_utf8_ignore(SubSeq(b, need + 2, Len(b)))
                    ELSE decode_utf8_ignore(SubSeq(b, k + 2, Len(b)))

\* "PTT_START" and "PTT_STOP"
PTT_START == <<80, 84, 84, 95, 83, 84, 65, 82, 84>>
PTT_STOP == <<80, 84, 84, 95, 83, 84, 79, 80>>

-----------------------------------------------------------------------------
(* State after construction                                                *)

\* queue.Queue(maxsize=50)
maxsize == 50
\* AudioPlayer(channels=1)
channels == 1
\* socket.recvfrom(4096)
RECV_BUFSIZE == 4096

FrameCounts == 1 .. MaxFrameCount

\* b'\x00' * n
Zeros(n) == [i \in 1 .. n |-> 0]

NewThread ==
    [pc |-> "loop", data |-> <<>>, parsed_frame |-> None, pcm_audio |-> <<>>]

Init ==
    /\ running = FALSE
    /\ socket = "open"
    /\ stats = [packets_received |-> 0, valid_frames |-> 0, audio_frames |-> 0,
                control_frames |-> 0, invalid_frames |-> 0, bytes_received |-> 0]
    /\ ptt_active = FALSE
    /\ last_audio_time = 0
    /\ threads = <<>>
    /\ audio_queue = <<>>
    /\ audio_stats = [frames_decoded |-> 0, frames_played |-> 0,
                      decode_errors |-> 0, queue_overflows |-> 0]
    /\ player_running = FALSE
    /\ output_stream = "active"
    /\ callback = [pc |-> "idle", frame_count |-> 0, returned |-> <<>>]

SetThread(t, r) == threads' = [threads EXCEPT ![t] = r]

-----------------------------------------------------------------------------
(* OpulentVoiceReceiver.listen_loop                                        *)

\* while self.running:
LoopCheck(t) ==
    /\ threads[t].pc = "loop"
    /\ SetThread(t, [threads[t] EXCEPT !.pc = IF running THEN "recv" ELSE "done"])
    /\ UNCHANGED <<running, socket, stats, ptt_active, last_audio_time,
                   audio_queue, audio_stats, player_running, output_stream, callback>>

\* the call of self.socket.recvfrom(4096): on a closed socket it raises at
\* once (except Exception, and the loop goes on); on an open one the
\* thread waits in it for a datagram (no timeout is ever set).
RecvCall(t) ==
    /\ threads[t].pc = "recv"
    /\ SetThread(t, [threads[t] EXCEPT
                       !.pc = IF socket = "closed" THEN "loop" ELSE "wait"])
    /\ UNCHANGED <<running, socket, stats, ptt_active, last_audio_time,
                   audio_queue, audio_stats, player_running, output_stream, callback>>

\* recvfrom returns a datagram, and the two counters that follow it are
\* updated. The datagram d is one of D; at most `limit` are taken.
Recvfrom(t, D, limit) ==
    /\ threads[t].pc = "wait"
    /\ socket = "open"
    /\ stats.packets_received < limit
    /\ \E d \in D :
         LET data == Slice(d, 0, RECV_BUFSIZE)
         IN /\ SetThread(t, [threads[t] EXCEPT !.pc = "process", !.data = data])
            /\ stats' = [stats EXCEPT !.packets_received = @ + 1,
                                      !.bytes_received = @ + Len(data)]
    /\ UNCHANGED <<running, socket, ptt_active, last_audio_time,
                   audio_queue, audio_stats, player_running, output_stream, callback>>

RecvError_fatal(t) ==
    /\ threads[t].pc = "wait"
    /\ SetThread(t, [threads[t] EXCEPT !.pc = "done"])
    /\ UNCHANGED <<running, socket, stats, ptt_active, last_audio_time,
                   audio_queue, audio_stats, player_running, output_stream, callback>>

\* the recvfrom a thread waits in raises: a transient error, or, where the
\* platform interrupts a receive whose socket another thread closes, the
\* close() of stop(). except Exception, and the loop goes on. Nothing
\* obliges either to happen.
RecvError(t) ==
    /\ threads[t].pc = "wait"
    /\ SetThread(t, [threads[t] EXCEPT !.pc = "loop"])
    /\ UNCHANGED <<running, socket, stats, ptt_active, last_audio_time,
                   audio_queue, audio_stats, player_running, output_stream, callback>>

-----------------------------------------------------------------------------
(* OpulentVoiceReceiver.process_frame                                      *)

\* time.time(): a logical clock that ticks with every datagram received
\* (positive whenever a frame is being processed).
time == stats.packets_received

ptt_after_swapped(message, ptt) ==
    IF message = PTT_START THEN FALSE
    ELSE IF message = PTT_STOP THEN TRUE
    ELSE ptt

\* the PTT flag after a Control frame with text `message`
ptt_after(message, ptt) ==
    IF message = PTT_START THEN TRUE
    ELSE IF message = PTT_STOP THEN FALSE
    ELSE ptt

\* process_frame up to the point where it calls decode_and_queue_audio
\* (Audio frames) or returns (all other frames and parse failures).
ProcessFrame(t) ==
    /\ threads[t].pc = "process"
    /\ LET parsed_frame == parse_frame(threads[t].data)
       IN IF parsed_frame = None
          THEN /\ stats' = [stats EXCEPT !.invalid_frames = @ + 1]
               /\ SetThread(t, [threads[t] EXCEPT !.pc = "loop",
                                                   !.parsed_frame = parsed_frame])
               /\ UNCHANGED <<ptt_active, last_audio_time>>
          ELSE IF parsed_frame.type = FRAME_TYPE_AUDIO
          THEN /\ stats' = [stats EXCEPT !.valid_frames = @ + 1,
                                         !.audio_frames = @ + 1]
               /\ last_audio_time' = time
               /\ SetThread(t, [threads[t] EXCEPT !.pc = "decode",
                                                   !.parsed_frame = parsed_frame])
               /\ UNCHANGED ptt_active
          ELSE IF parsed_frame.type = FRAME_TYPE_CONTROL
          THEN /\ stats' = [stats EXCEPT !.valid_frames = @ + 1,
                                         !.control_frames = @ + 1]
               /\ ptt_active' = ptt_after(decode_utf8_ignore(parsed_frame.payload),
                                          ptt_active)
               /\ SetThread(t, [threads[t] EXCEPT !.pc = "loop",
                                                   !.parsed_frame = parsed_frame])
               /\ UNCHANGED last_audio_time
          ELSE \* Text, Data and unknown types: printed only
               /\ stats' = [stats EXCEPT !.valid_frames = @ + 1]
               /\ SetThread(t, [threads[t] EXCEPT !.pc = "loop",
                                                   !.parsed_frame = parsed_frame])
               /\ UNCHANGED <<ptt_active, last_audio_time>>
    /\ UNCHANGED <<running, socket, audio_queue, audio_stats, player_running,
                   output_stream, callback>>

-----------------------------------------------------------------------------
(* queue.Queue: the operations the program uses. A queue is the sequence   *)
(* of its items, oldest first.                                             *)

\* Queue.full()
full_above(q) == Len(q) > maxsize
full(q) == Len(q) >= maxsize

\* Queue.empty()
empty(q) == Len(q) = 0

\* Queue.get_nowait() on a non-empty queue: the item it returns and the
\* queue it leaves
get_nowait(q) == [item |-> Head(q), rest |-> Tail(q)]

-----------------------------------------------------------------------------
(* AudioPlayer.decode_and_queue_audio, statement by statement, as the      *)
(* listen thread runs it while the device callback runs beside it.         *)

Decode_counted_first(t) ==
    /\ threads[t].pc = "decode"
    /\ \/ /\ audio_stats' = [audio_stats EXCEPT !.frames_decoded = @ + 1]
          /\ SetThread(t, [threads[t] EXCEPT
                             !.pc = "full",
                             !.pcm_audio = <<audio_stats.frames_decoded + 1>>])
       \/ /\ audio_stats.decode_errors < MaxDecodeErrors
          /\ audio_stats' = [audio_stats EXCEPT !.frames_decoded = @ + 1,
                                                !.decode_errors = @ + 1]
          /\ SetThread(t, [threads[t] EXCEPT !.pc = "loop"])
    /\ UNCHANGED <<running, socket, stats, ptt_active, last_audio_time,
                   audio_queue, player_running, output_stream, callback>>

\* pcm_audio = self.decoder.decode(...): the codec decides whether the
\* packet decodes; a failure is caught by the except clause, counted, and
\* the method returns.
Decode(t) ==
    /\ threads[t].pc = "decode"
    /\ \/ /\ audio_stats' = [audio_stats EXCEPT !.frames_decoded = @ + 1]
          /\ SetThread(t, [threads[t] EXCEPT
                             !.pc = "full",
                             !.pcm_audio = <<audio_stats.frames_decoded + 1>>])
       \/ /\ audio_stats.decode_errors < MaxDecodeErrors
          /\ audio_stats' = [audio_stats EXCEPT !.decode_errors = @ + 1]
          /\ SetThread(t, [threads[t] EXCEPT !.pc = "loop"])
    /\ UNCHANGED <<running, socket, stats, ptt_active, last_audio_time,
                   audio_queue, player_running, output_stream, callback>>

QueueFull_skipped(t) ==
    /\ threads[t].pc = "full"
    /\ SetThread(t, [threads[t] EXCEPT !.pc = "put"])
    /\ UNCHANGED <<running, socket, stats, ptt_active, last_audio_time,
                   audio_queue, audio_stats, player_running, output_stream, callback>>

\* if self.audio_queue.full():
QueueFull(t) ==
    /\ threads[t].pc = "full"
    /\ SetThread(t, [threads[t] EXCEPT
                       !.pc = IF full(audio_queue) THEN "get" ELSE "put"])
    /\ UNCHANGED <<running, socket, stats, ptt_active, last_audio_time,
                   audio_queue, audio_stats, player_running, output_stream, callback>>

Evict_uncounted(t) ==
    /\ threads[t].pc = "get"
    /\ IF empty(audio_queue)
       THEN UNCHANGED audio_queue
       ELSE audio_queue' = get_nowait(audio_queue).rest
    /\ SetThread(t, [threads[t] EXCEPT !.pc = "put"])
    /\ UNCHANGED <<running, socket, stats, ptt_active, last_audio_time,
                   audio_stats, player_running, output_stream, callback>>

\* self.audio_queue.get_nowait(); queue_overflows += 1, or queue.Empty: pass
Evict(t) ==
    /\ threads[t].pc = "get"
    /\ IF empty(audio_queue)
       THEN UNCHANGED <<audio_queue, audio_stats>>
       ELSE /\ audio_queue' = get_nowait(audio_queue).rest
            /\ audio_stats' = [audio_stats EXCEPT !.queue_overflows = @ + 1]
    /\ SetThread(t, [threads[t] EXCEPT !.pc = "put"])
    /\ UNCHANGED <<running, socket, stats, ptt_active, last_audio_time,
                   player_running, output_stream, callback>>

\* self.audio_queue.put(pcm_audio): waits while the queue is full
Put(t) ==
    /\ threads[t].pc = "put"
    /\ ~full(audio_queue)
    /\ audio_queue' = Append(audio_queue, threads[t].pcm_audio)
    /\ SetThread(t, [threads[t] EXCEPT !.pc = "loop"])
    /\ UNCHANGED <<running, socket, stats, ptt_active, last_audio_time,
                   audio_stats, player_running, output_stream, callback>>

DecodeAndQueueAudio_error_uncounted(t) ==
    /\ threads[t].pc = "decode"
    /\ \/ LET pcm_audio == <<audio_stats.frames_decoded + 1>>
              evict == full(audio_queue) /\ ~empty(audio_queue)
              q == IF evict THEN get_nowait(audio_queue).rest ELSE audio_queue
          IN /\ ~full(q)
             /\ audio_queue' = Append(q, pcm_audio)
             /\ audio_stats' = [audio_stats EXCEPT
                                  !.frames_decoded = @ + 1,
                                  !.queue_overflows = IF evict THEN @ + 1 ELSE @]
             /\ SetThread(t, [threads[t] EXCEPT !.pc = "loop",
                                                 !.pcm_audio = pcm_audio])
       \/ /\ audio_stats.decode_errors < MaxDecodeErrors
          /\ SetThread(t, [threads[t] EXCEPT !.pc = "loop"])
          /\ UNCHANGED <<audio_queue, audio_stats>>
    /\ UNCHANGED <<running, socket, stats, ptt_active, last_audio_time,
                   player_running, output_stream, callback>>

\* decode_and_queue_audio run without the callback in between (used where
\* the queue stays far from full)
DecodeAndQueueAudio(t) ==
    /\ threads[t].pc = "decode"
    /\ \/ LET pcm_audio == <<audio_stats.frames_decoded + 1>>
              evict == full(audio_queue) /\ ~empty(audio_queue)
              q == IF evict THEN get_nowait(audio_queue).rest ELSE audio_queue
          IN /\ ~full(q)
             /\ audio_queue' = Append(q, pcm_audio)
             /\ audio_stats' = [audio_stats EXCEPT
                                  !.frames_decoded = @ + 1,
                                  !.queue_overflows = IF evict THEN @ + 1 ELSE @]
             /\ SetThread(t, [threads[t] EXCEPT !.pc = "loop",
                                                 !.pcm_audio = pcm_audio])
       \/ /\ audio_stats.decode_errors < MaxDecodeErrors
          /\ audio_stats' = [audio_stats EXCEPT !.decode_errors = @ + 1]
          /\ SetThread(t, [threads[t] EXCEPT !.pc = "loop"])
          /\ UNCHANGED audio_queue
    /\ UNCHANGED <<running, socket, stats, ptt_active, last_audio_time,
                   player_running, output_stream, callback>>

-----------------------------------------------------------------------------
(* AudioPlayer.audio_callback, called by the audio device while the stream *)
(* is active                                                               *)

silence_mono8(frame_count) == Zeros(frame_count * channels)

\* b'\x00' * (frame_count * 2 * self.channels)
silence(frame_count) == Zeros(frame_count * 2 * channels)

\* entry, and `if not self.audio_queue.empty()`; the else branch returns
\* silence at once
AudioCallback(frame_count) ==
    /\ output_stream = "active"
    /\ callback.pc = "idle"
    /\ callback' = IF ~empty(audio_queue)
                   THEN [callback EXCEPT !.pc = "get", !.frame_count = frame_count]
                   ELSE [callback EXCEPT !.returned = silence(frame_count)]
    /\ UNCHANGED <<running, socket, stats, ptt_active, last_audio_time, threads,
                   audio_queue, audio_stats, player_running, output_stream>>

CallbackGet_uncounted ==
    /\ callback.pc = "get"
    /\ IF empty(audio_queue)
       THEN /\ callback' = [pc |-> "idle", frame_count |-> 0,
                            returned |-> silence(callback.frame_count)]
            /\ UNCHANGED audio_queue
       ELSE /\ callback' = [pc |-> "idle", frame_count |-> 0,
                            returned |-> get_nowait(audio_queue).item]
            /\ audio_queue' = get_nowait(audio_queue).rest
    /\ UNCHANGED <<running, socket, stats, ptt_active, last_audio_time, threads,
                   audio_stats, player_running, output_stream>>

\* audio_data = self.audio_queue.get_nowait(); frames_played += 1; return.
\* An empty queue raises queue.Empty, and the except clause returns silence.
CallbackGet ==
    /\ callback.pc = "get"
    /\ IF empty(audio_queue)
       THEN /\ callback' = [pc |-> "idle", frame_count |-> 0,
                            returned |-> silence(callback.frame_count)]
            /\ UNCHANGED <<audio_queue, audio_stats>>
       ELSE /\ callback' = [pc |-> "idle", frame_count |-> 0,
                            returned |-> get_nowait(audio_queue).item]
            /\ audio_queue' = get_nowait(audio_queue).rest
            /\ audio_stats' = [audio_stats EXCEPT !.frames_played = @ + 1]
    /\ UNCHANGED <<running, socket, stats, ptt_active, last_audio_time, threads,
                   player_running, output_stream>>

-----------------------------------------------------------------------------
(* Lifecycle                                                               *)

\* OpulentVoiceReceiver.start, with AudioPlayer.start inside it. The stream
\* was opened started by setup_audio_output; start_stream() on a closed
\* stream raises, and start() ends there, before it spawns the thread.
Start ==
    /\ Len(threads) < MaxStarts
    /\ running' = TRUE
    /\ IF output_stream = "closed"
       THEN UNCHANGED <<output_stream, player_running, threads>>
       ELSE /\ output_stream' = "active"
            /\ player_running' = TRUE
            /\ threads' = Append(threads, NewThread)
    /\ UNCHANGED <<socket, stats, ptt_active, last_audio_time, audio_queue,
                   audio_stats, callback>>

\* OpulentVoiceReceiver.stop, with AudioPlayer.stop inside it. stop_stream()
\* returns once the callback in progress has returned; on a closed stream
\* it raises, and stop() ends there.
Stop ==
    /\ callback.pc = "idle"
    /\ running' = FALSE
    /\ player_running' = FALSE
    /\ IF output_stream = "closed"
       THEN UNCHANGED <<output_stream, socket>>
       ELSE /\ output_stream' = "closed"
            /\ socket' = "closed"
    /\ UNCHANGED <<stats, ptt_active, last_audio_time, threads, audio_queue,
                   audio_stats, callback>>

-----------------------------------------------------------------------------
(* Datagrams the network delivers                                          *)

STATION == <<79, 86, 82, 88, 48, 49>>

\* control and text payloads: the two commands, the commands with a byte
\* that is not UTF-8 before or after them, a prefix of a command, "é",
\* and the empty payload
DispatchPayloads ==
    { PTT_START, PTT_STOP, PTT_START \o <<255>>, <<128>> \o PTT_STOP,
      SubSeq(PTT_START, 1, 8), <<195, 169>>, <<>> }

\* one byte short of a header
ShortDatagram == SubSeq(Encode(STATION, FRAME_TYPE_AUDIO, 7, <<>>), 1, HEADER_SIZE - 1)

\* a full frame with the wrong sync word
BadMagicDatagram ==
    Header(<<255, 92>>, STATION, FRAME_TYPE_CONTROL, 7, Len(PTT_START), 0) \o PTT_START

DispatchDatagrams ==
    { Encode(STATION, ty, 7, p) :
        ty \in {FRAME_TYPE_AUDIO, FRAME_TYPE_TEXT, FRAME_TYPE_CONTROL,
                FRAME_TYPE_DATA, 9},
        p \in DispatchPayloads }
    \cup {ShortDatagram, BadMagicDatagram}

PlaybackDatagrams == { Encode(STATION, FRAME_TYPE_AUDIO, 1, <<120, 1>>) }

LifeDatagrams ==
    { Encode(STATION, FRAME_TYPE_AUDIO, 1, <<120, 1>>),
      Encode(STATION, FRAME_TYPE_CONTROL, 2, PTT_START),
      ShortDatagram }

\* inputs of the parser: headers with right and wrong sync words, declared
\* lengths below, at and above the payload's, cut at every length
PayloadBytes == {0, 65, 255}

RECURSIVE SeqsUpTo(_, _)
SeqsUpTo(S, n) ==
    IF n = 0 THEN {<<>>}
    ELSE LET shorter == SeqsUpTo(S, n - 1)
         IN shorter \cup { Append(q, x) : q \in {r \in shorter : Len(r) = n - 1}, x \in S }

ParsePayloads == SeqsUpTo(PayloadBytes, MaxPayloadLen)
ParseMagics == { MAGIC_BYTES, <<255, 92>>, <<93, 255>>, <<0, 93>> }
ParseTypes == { 0, FRAME_TYPE_AUDIO, FRAME_TYPE_CONTROL, 255 }
ParseSequences == { 0, 255, 256, 65535 }
ParseStations == { STATION, <<0, 0, 0, 0, 0, 255>> }

ParseFull ==
    { Header(m, st, ty, sq, pl, rs) \o p :
        m \in ParseMagics, st \in ParseStations, ty \in ParseTypes,
        sq \in ParseSequences, pl \in 0 .. MaxDeclaredLen, rs \in {0, 1},
        p \in ParsePayloads }

ParseInputs ==
    ParseFull \cup { SubSeq(d, 1, k) : d \in ParseFull, k \in 0 .. HEADER_SIZE - 1 }

-----------------------------------------------------------------------------
(* Specifications                                                          *)

\* a receiver constructed and started once
InitStarted ==
    /\ running = TRUE
    /\ socket = "open"
    /\ stats = [packets_received |-> 0, valid_frames |-> 0, audio_frames |-> 0,
                control_frames |-> 0, invalid_frames |-> 0, bytes_received |-> 0]
    /\ ptt_active = FALSE
    /\ last_audio_time = 0
    /\ threads = <<NewThread>>
    /\ audio_queue = <<>>
    /\ audio_stats = [frames_decoded |-> 0, frames_played |-> 0,
                      decode_errors |-> 0, queue_overflows |-> 0]
    /\ player_running = TRUE
    /\ output_stream = "active"
    /\ callback = [pc |-> "idle", frame_count |-> 0, returned |-> <<>>]

\* a started receiver whose listen thread has just received its first
\* datagram, any of the parser's inputs
InitParse ==
    \E d \in ParseInputs :
        /\ running = TRUE
        /\ socket = "open"
        /\ stats = [packets_received |-> 1, valid_frames |-> 0, audio_frames |-> 0,
                    control_frames |-> 0, invalid_frames |-> 0,
                    bytes_received |-> Len(d)]
        /\ ptt_active = FALSE
        /\ last_audio_time = 0
        /\ threads = <<[NewThread EXCEPT !.pc = "process", !.data = d]>>
        /\ audio_queue = <<>>
        /\ audio_stats = [frames_decoded |-> 0, frames_played |-> 0,
                          decode_errors |-> 0, queue_overflows |-> 0]
        /\ player_running = TRUE
        /\ output_stream = "active"
        /\ callback = [pc |-> "idle", frame_count |-> 0, returned |-> <<>>]

\* the whole receiver: start, stop, the listen threads and the callback
Next ==
    \/ Start
    \/ Stop
    \/ \E t \in DOMAIN threads : LoopCheck(t)
    \/ \E t \in DOMAIN threads : RecvCall(t)
    \/ \E t \in DOMAIN threads : Recvfrom(t, LifeDatagrams, MaxLifePackets)
    \/ \E t \in DOMAIN threads : RecvError(t)
    \/ \E t \in DOMAIN threads : ProcessFrame(t)
    \/ \E t \in DOMAIN threads : DecodeAndQueueAudio(t)
    \/ \E n \in FrameCounts : AudioCallback(n)
    \/ CallbackGet

Spec == Init /\ [][Next]_vars

\* what a listen thread does by itself once the scheduler runs it: the loop
\* test, the call of recvfrom, process_frame, decode_and_queue_audio. The
\* return of a recvfrom it waits in (a datagram, an error) is not its doing.
ThreadStep(t) ==
    /\ t \in DOMAIN threads
    /\ \/ LoopCheck(t)
       \/ RecvCall(t)
       \/ ProcessFrame(t)
       \/ DecodeAndQueueAudio(t)

\* the whole receiver under a fair scheduler: a thread that can take a step
\* takes it, and a callback that was entered returns
SpecLive ==
    /\ Init
    /\ [][Next]_vars
    /\ \A t \in 1..MaxStarts : WF_vars(ThreadStep(t))
    /\ WF_vars(CallbackGet)

\* frame dispatch: the started receiver fed every kind of datagram
NextDispatch ==
    \/ \E t \in DOMAIN threads : LoopCheck(t)
    \/ \E t \in DOMAIN threads : RecvCall(t)
    \/ \E t \in DOMAIN threads : Recvfrom(t, DispatchDatagrams, MaxPackets)
    \/ \E t \in DOMAIN threads : RecvError(t)
    \/ \E t \in DOMAIN threads : ProcessFrame(t)
    \/ \E t \in DOMAIN threads : DecodeAndQueueAudio(t)
    \/ \E n \in FrameCounts : AudioCallback(n)
    \/ CallbackGet

SpecDispatch == InitStarted /\ [][NextDispatch]_vars

\* playback: the started receiver fed audio frames, decode_and_queue_audio
\* interleaved statement by statement with the device callback
NextPlayback ==
    \/ \E t \in DOMAIN threads : LoopCheck(t)
    \/ \E t \in DOMAIN threads : RecvCall(t)
    \/ \E t \in DOMAIN threads : Recvfrom(t, PlaybackDatagrams, MaxAudioPackets)
    \/ \E t \in DOMAIN threads : RecvError(t)
    \/ \E t \in DOMAIN threads : ProcessFrame(t)
    \/ \E t \in DOMAIN threads : Decode(t)
    \/ \E t \in DOMAIN threads : QueueFull(t)
    \/ \E t \in DOMAIN threads : Evict(t)
    \/ \E t \in DOMAIN threads : Put(t)
    \/ \E n \in FrameCounts : AudioCallback(n)
    \/ CallbackGet

SpecPlayback == InitStarted /\ [][NextPlayback]_vars

\* the parser applied to each of its inputs
NextParse == \E t \in DOMAIN threads : ProcessFrame(t)

SpecParse == InitParse /\ [][NextParse]_vars

-----------------------------------------------------------------------------
(* Properties of parse_frame (checked under SpecParse)                     *)

\* the listen thread t has run process_frame on its datagram
Processed(t) == threads[t].pc # "process"

HasMagic(d) == Len(d) >= 2 /\ SubSeq(d, 1, 2) = <<255, 93>>

\* the payload length a datagram of at least 14 bytes declares
DeclaredLen(d) == d[12] * 256 + d[13]

\* C2: a datagram with a 14-byte header of the right magic whose declared
\* payloadLen is greater than the number of bytes after the header is
\* rejected (parse_frame returns None).
C2_ShortPayloadRejected ==
    \A t \in DOMAIN threads :
        (/\ Processed(t)
         /\ Len(threads[t].data) >= 14
         /\ HasMagic(threads[t].data)
         /\ DeclaredLen(threads[t].data) > Len(threads[t].data) - 14)
        => threads[t].parsed_frame = None

\* C3: a frame encoded in the wire layout, of any station, type, 16-bit
\* sequence and payload, parses to a frame with those same four fields
\* (the payload of an encoded frame is all that follows its 14-byte header).
C3_RoundTrip ==
    \A t \in DOMAIN threads :
        (Processed(t) /\ Len(threads[t].data) >= 14) =>
            LET p == SubSeq(threads[t].data, 15, Len(threads[t].data))
            IN \A st \in ParseStations, ty \in ParseTypes, sq \in ParseSequences :
                 threads[t].data = Encode(st, ty, sq, p)
                 => threads[t].parsed_frame =
                        [station_id |-> st, type |-> ty, sequence |-> sq, payload |-> p]

C3_Witness ==
    \E t \in DOMAIN threads :
        /\ Processed(t)
        /\ threads[t].data = Encode(STATION, 255, 65535, <<255, 65>>)
        /\ threads[t].parsed_frame # None
        /\ threads[t].parsed_frame.sequence = 65535
        /\ Len(threads[t].parsed_frame.payload) = 2

\* C4: a datagram of fewer than 14 bytes is rejected: parse_frame returns
\* None, and the frame is counted invalid.
C4_ShortRejected ==
    \A t \in DOMAIN threads :
        (Processed(t) /\ Len(threads[t].data) < 14)
        => (threads[t].parsed_frame = None /\ stats.invalid_frames = 1
            /\ stats.valid_frames = 0)

C4_Witness ==
    \E t \in DOMAIN threads :
        /\ Processed(t)
        /\ Len(threads[t].data) = 13
        /\ HasMagic(threads[t].data)
        /\ threads[t].parsed_frame = None

\* C5: a datagram of at least 14 bytes whose first two bytes are not
\* 0xFF 0x5D is rejected, whatever follows them.
C5_BadMagicRejected ==
    \A t \in DOMAIN threads :
        (Processed(t) /\ Len(threads[t].data) >= 14 /\ ~HasMagic(threads[t].data))
        => (threads[t].parsed_frame = None /\ stats.invalid_frames = 1
            /\ stats.valid_frames = 0)

C5_Witness ==
    \E t \in DOMAIN threads :
        /\ Processed(t)
        /\ Len(threads[t].data) = 16
        /\ SubSeq(threads[t].data, 1, 2) = <<255, 92>>
        /\ DeclaredLen(threads[t].data) = 2
        /\ threads[t].parsed_frame = None

-----------------------------------------------------------------------------
(* Properties of the playback queue (checked under SpecPlayback)           *)

\* thread t is inside the queueing part of decode_and_queue_audio
Enqueueing(t) == threads[t].pc \in {"full", "get", "put"}

\* the n most recent of the chunks decoded so far, oldest first
MostRecent(n) ==
    [i \in 1 .. n |-> <<audio_stats.frames_decoded - n + i>>]

\* C1: the playback buffer never holds more than 50 chunks; and while no
\* chunk has been pulled, after n enqueues it holds the min(n, 50) most
\* recent chunks in arrival order (after 51: chunks 2..51).
C1_BoundedMostRecent ==
    /\ Len(audio_queue) <= 50
    /\ (/\ audio_stats.frames_played = 0
        /\ \A t \in DOMAIN threads : ~Enqueueing(t))
       => audio_queue = MostRecent(Min(audio_stats.frames_decoded, 50))

C1_Witness ==
    /\ audio_stats.frames_played = 0
    /\ audio_stats.frames_decoded = 51
    /\ \A t \in DOMAIN threads : ~Enqueueing(t)
    /\ Len(audio_queue) = 50
    /\ Head(audio_queue) = <<2>>
    /\ audio_queue[50] = <<51>>

\* C6: neither side is ever stalled on the queue: whenever the listen
\* thread is at its put the queue has a free slot, whatever the callback
\* has done in between, and the callback's get is always able to run.
C6_NeverBlocked ==
    /\ \A t \in DOMAIN threads :
         threads[t].pc = "put" => Len(audio_queue) < 50
    /\ callback.pc = "get" => ENABLED CallbackGet

\* the put that follows an eviction, with the callback between its check
\* and its get
C6_Witness ==
    /\ \E t \in DOMAIN threads : threads[t].pc = "put"
    /\ audio_stats.queue_overflows >= 1
    /\ Len(audio_queue) = 49
    /\ callback.pc = "get"

\* C7: a pull of frame_count n that finds the buffer empty returns n * 2 *
\* channels zero bytes, at once, and leaves the buffer and the counters
\* as they were.
C7_EmptyPullSilence ==
    [][\A n \in FrameCounts :
         (audio_queue = <<>> /\ AudioCallback(n))
         => /\ callback'.returned = [i \in 1 .. (n * 2 * 1) |-> 0]
            /\ callback'.pc = "idle"
            /\ audio_queue' = <<>>
            /\ audio_stats' = audio_stats]_vars

\* silence returned after chunks have been played and the buffer drained
C7_Witness ==
    /\ callback.returned = <<0, 0, 0, 0>>
    /\ callback.pc = "idle"
    /\ audio_queue = <<>>
    /\ audio_stats.frames_played >= 1

\* the last value returned to the device is a chunk (not silence)
ReturnedChunk == Len(callback.returned) = 1 /\ callback.returned[1] >= 1

\* C8: a pull that finds the buffer non-empty still finds it so at its
\* get, removes and returns the oldest chunk, and adds 1 to frames_played;
\* the chunk is older than every chunk left behind and younger than the
\* chunk returned before it.
C8_PullOldest ==
    /\ [](callback.pc = "get" => audio_queue # <<>>)
    /\ [][(callback.pc = "get" /\ CallbackGet)
          => /\ callback'.returned = audio_queue[1]
             /\ audio_queue' = SubSeq(audio_queue, 2, Len(audio_queue))
             /\ audio_stats'.frames_played = audio_stats.frames_played + 1
             /\ \A i \in 1 .. Len(audio_queue') :
                  callback'.returned[1] < audio_queue'[i][1]
             /\ ReturnedChunk => callback.returned[1] < callback'.returned[1]]_vars

-----------------------------------------------------------------------------
(* Properties of process_frame (checked under SpecDispatch)                *)

\* thread t runs process_frame on a datagram that parses to a frame of
\* type ty
Dispatches(t, ty) ==
    /\ threads[t].pc = "process"
    /\ ProcessFrame(t)
    /\ parse_frame(threads[t].data) # None
    /\ parse_frame(threads[t].data).type = ty

\* bytes that occur in no well-formed UTF-8 sequence
NeverUtf8(b) == (b >= 128 /\ b <= 193) \/ b >= 245

AsciiOrNeverUtf8(p) == \A i \in 1 .. Len(p) : p[i] < 128 \/ NeverUtf8(p[i])

IsAscii(b) == b < 128

\* C9 as claimed: a Control frame sets ptt_active when its payload is
\* exactly PTT_START, clears it when its payload is exactly PTT_STOP, and
\* leaves it unchanged for every other payload.
C9_ExactPayloadOnly ==
    [][\A t \in DOMAIN threads :
         Dispatches(t, 3) =>
            LET payload == parse_frame(threads[t].data).payload
            IN ptt_active' = IF payload = PTT_START THEN TRUE
                             ELSE IF payload = PTT_STOP THEN FALSE
                             ELSE ptt_active]_vars

\* C9 as amended: a Control frame sets ptt_active when the text of its
\* payload (UTF-8, undecodable bytes dropped) is PTT_START, clears it when
\* that text is PTT_STOP, and leaves it unchanged for every other text; so
\* the exact payloads act as claimed, and so does a payload that differs
\* from a command only by bytes that are not UTF-8 (PTT_START 0xFF).
C9_DecodedTextDecides ==
    [][\A t \in DOMAIN threads :
         Dispatches(t, 3) =>
            LET payload == parse_frame(threads[t].data).payload
                message == decode_utf8_ignore(payload)
            IN /\ ptt_active' = IF message = PTT_START THEN TRUE
                                ELSE IF message = PTT_STOP THEN FALSE
                                ELSE ptt_active
               /\ payload = PTT_START => ptt_active'
               /\ payload = PTT_STOP => ~ptt_active'
               /\ AsciiOrNeverUtf8(payload) =>
                    LET text == SelectSeq(payload, IsAscii)
                    IN /\ text = PTT_START => ptt_active'
                       /\ text = PTT_STOP => ~ptt_active'
                       /\ text \notin {PTT_START, PTT_STOP}
                            => ptt_active' = ptt_active]_vars

\* PTT_START, then a Control frame with another text, which left PTT on
C9_Witness ==
    /\ ptt_active
    /\ stats.control_frames = 2
    /\ \E t \in DOMAIN threads :
         /\ threads[t].pc = "loop"
         /\ threads[t].parsed_frame # None
         /\ threads[t].parsed_frame.type = 3
         /\ threads[t].parsed_frame.payload = <<80, 84, 84, 95, 83, 84, 65, 82>>

\* C10: every dispatch of a parsed frame adds 1 to valid_frames and 1 to
\* exactly one per-type counter (the stats hold two: audio_frames and
\* control_frames), and changes no other frame counter.
C10_OneTypeCounter ==
    [][\A t \in DOMAIN threads :
         (/\ threads[t].pc = "process"
          /\ ProcessFrame(t)
          /\ parse_frame(threads[t].data) # None)
         => /\ stats'.valid_frames = stats.valid_frames + 1
            /\ stats'.invalid_frames = stats.invalid_frames
            /\ (stats'.audio_frames - stats.audio_frames)
                 + (stats'.control_frames - stats.control_frames) = 1]_vars

-----------------------------------------------------------------------------
(* Failures inside one iteration of the receive loop                       *)

\* the datagrams parse_frame turns down: fewer than 14 bytes, or 14 and
\* more that do not start with the magic
Unparseable(d) == Len(d) < HEADER_SIZE \/ ~HasMagic(d)

\* C11: when the datagram cannot be parsed (it is shorter than the 14-byte
\* header, or lacks the magic), process_frame adds exactly 1 to
\* invalid_frames and dispatches nothing: every other statistic, PTT,
\* last_audio_time, the playback queue and the player's counters are as
\* before, and the thread is back at the top of the loop.
C11_ParseFailureCountsOnly ==
    [][\A t \in DOMAIN threads :
         (/\ threads[t].pc = "process"
          /\ ProcessFrame(t)
          /\ Unparseable(threads[t].data))
         => /\ stats' = [stats EXCEPT !.invalid_frames = @ + 1]
            /\ ptt_active' = ptt_active
            /\ last_audio_time' = last_audio_time
            /\ audio_queue' = audio_queue
            /\ audio_stats' = audio_stats
            /\ threads'[t].pc = "loop"]_vars

\* the 13-byte datagram was received and turned down, nothing else happened
C11_Witness ==
    /\ stats.invalid_frames = 1
    /\ stats.valid_frames = 0
    /\ stats.packets_received = 1
    /\ \E t \in DOMAIN threads :
         /\ threads[t].pc = "loop"
         /\ Len(threads[t].data) = 13

\* C12: an Audio frame that parses is counted by process_frame (valid_frames
\* and audio_frames one more each, the player untouched), and when the codec
\* then fails on its payload, the step that handles the failure adds 1 to
\* decode_errors and changes nothing else: the queue, frames_decoded,
\* frames_played, queue_overflows and the receiver's statistics are as
\* before, and the thread is back at the top of the loop.
C12_DecodeFailureCountsOnly ==
    [][\A t \in DOMAIN threads :
         /\ (/\ threads[t].pc = "process"
             /\ ProcessFrame(t)
             /\ threads'[t].pc = "decode")
            => /\ stats' = [stats EXCEPT !.valid_frames = @ + 1,
                                         !.audio_frames = @ + 1]
               /\ audio_queue' = audio_queue
               /\ audio_stats' = audio_stats
         /\ (/\ threads[t].pc = "decode"
             /\ threads'[t].pc = "loop")
            => /\ audio_stats' = [audio_stats EXCEPT !.decode_errors = @ + 1]
               /\ audio_queue' = audio_queue
               /\ stats' = stats]_vars

\* the first Audio frame failed to decode: counted valid, audio and as a
\* decode error, nothing decoded, nothing queued, and the loop goes on
C12_Witness ==
    /\ stats.valid_frames = 1
    /\ stats.audio_frames = 1
    /\ audio_stats.decode_errors = 1
    /\ audio_stats.frames_decoded = 0
    /\ audio_queue = <<>>
    /\ \E t \in DOMAIN threads : threads[t].pc = "wait"

-----------------------------------------------------------------------------
(* Filling the queue past its capacity                                     *)

Max(a, b) == IF a > b THEN a ELSE b

\* C13: starting from the empty queue of capacity c = maxsize, while nothing
\* has been pulled, after n successful enqueues the queue holds min(n, c)
\* chunks and queue_overflows is max(0, n - c); 60 enqueues into the queue
\* of 50 leave 50 chunks and 10 overflows.
C13_FillThenOverflow ==
    (/\ audio_stats.frames_played = 0
     /\ \A t \in DOMAIN threads : ~Enqueueing(t))
    => /\ Len(audio_queue) = Min(audio_stats.frames_decoded, maxsize)
       /\ audio_stats.queue_overflows = Max(0, audio_stats.frames_decoded - maxsize)

\* 60 enqueues and no pull: 50 chunks, 10 overflows
C13_Witness ==
    /\ audio_stats.frames_decoded = 60
    /\ audio_stats.frames_played = 0
    /\ Len(audio_queue) = 50
    /\ audio_stats.queue_overflows = 10
    /\ \A t \in DOMAIN threads : threads[t].pc = "loop"

-----------------------------------------------------------------------------
(* Lifetime of the receive loop                                            *)

\* C14: a listen loop ends only at its `while self.running` test, and only
\* when running is false there: no receive error, parse failure or decode
\* failure ends it, each of them brings the thread back to the test.
C14_ExitsOnlyWhenStopped ==
    [][\A t \in DOMAIN threads :
         (threads[t].pc # "done" /\ threads'[t].pc = "done")
         => (~running /\ threads[t].pc = "loop")]_vars

\* still running, the loop has been through a datagram it could not parse
\* and an Audio frame the codec failed on, and waits for the next datagram
C14_Witness ==
    /\ running
    /\ stats.invalid_frames = 1
    /\ audio_stats.decode_errors = 1
    /\ \E t \in DOMAIN threads : threads[t].pc = "wait"

\* every listen thread has left its loop
AllDone == \A t \in DOMAIN threads : threads[t].pc = "done"

\* C15: once stop() has run on a started receiver (running false, socket
\* closed), every listen loop eventually ends (unless the receiver is
\* started again), even if no datagram arrives any more.
C15_StopEndsLoop ==
    (~running /\ socket = "closed" /\ threads # <<>>) ~> (running \/ AllDone)

\* the receiver after start(): running, the device playing, a listen loop
Started ==
    /\ running
    /\ player_running
    /\ output_stream = "active"
    /\ threads # <<>>

\* the receiver after stop(): not running, device and socket closed
Stopped ==
    /\ ~running
    /\ ~player_running
    /\ output_stream = "closed"
    /\ socket = "closed"

\* C16: start() on a started receiver and stop() on a stopped one change
\* nothing: still the listen loops there were, one open playing device, and
\* a second stop() does nothing more to the closed device and socket.
C16_Idempotent ==
    [][/\ (Started /\ Start) => UNCHANGED vars
       /\ (Stopped /\ Stop) => UNCHANGED vars]_vars

\* C17: once stop() has completed, no enqueue and no pull changes the
\* playback queue or the player's counters, not even the enqueue of a
\* receive-loop iteration that was under way when stop() was called.
C17_NoPlaybackAfterStop ==
    [][Stopped => /\ audio_queue' = audio_queue
                  /\ audio_stats' = audio_stats]_vars

-----------------------------------------------------------------------------
(* The enqueue and the callback side by side                               *)

\* C18: with one listen thread and the callback interleaved, a step that
\* evicts a chunk (queue_overflows goes up) starts from a queue that holds
\* exactly maxsize chunks: nothing is discarded while a slot is free.
C18_EvictOnlyWhenFull ==
    [][audio_stats'.queue_overflows # audio_stats.queue_overflows
         => Len(audio_queue) = maxsize]_vars

\* neither an enqueue nor a pull is under way
Quiescent ==
    /\ \A t \in DOMAIN threads : ~Enqueueing(t)
    /\ callback.pc = "idle"

\* C19: whenever neither an enqueue nor a pull is under way, every decoded
\* chunk is accounted for: frames_decoded = frames_played + queue_overflows
\* + the number of chunks in the queue.
C19_ChunkConservation ==
    Quiescent
    => audio_stats.frames_decoded
         = audio_stats.frames_played + audio_stats.queue_overflows
             + Len(audio_queue)

\* chunks played, chunks evicted and chunks still queued, all at once
C19_Witness ==
    /\ Quiescent
    /\ audio_stats.frames_played >= 2
    /\ audio_stats.queue_overflows >= 2
    /\ Len(audio_queue) >= 2

-----------------------------------------------------------------------------
(* Counters at the boundary between two iterations of the receive loop     *)

\* the listen thread is between two iterations: at the loop test, calling
\* or waiting in recvfrom, or past the loop
AtBoundary(t) == threads[t].pc \in {"loop", "recv", "wait", "done"}

\* C20: at every boundary between two iterations of the receive loop, each
\* datagram received has been classified (packets_received = valid_frames
\* + invalid_frames) and each Audio frame has been decoded or counted as a
\* decode error (audio_frames = frames_decoded + decode_errors).
C20_CountersAddUp ==
    (\A t \in DOMAIN threads : AtBoundary(t))
    => /\ stats.packets_received = stats.valid_frames + stats.invalid_frames
       /\ stats.audio_frames
            = audio_stats.frames_decoded + audio_stats.decode_errors

\* two datagrams done: one turned down by the parser, one Audio frame the
\* codec failed on
C20_Witness ==
    /\ \A t \in DOMAIN threads : AtBoundary(t)
    /\ stats.packets_received = 2
    /\ stats.invalid_frames = 1
    /\ stats.valid_frames = 1
    /\ stats.audio_frames = 1
    /\ audio_stats.decode_errors = 1

====
